---------------------------- MODULE Spec2Model ----------------------------
(***************************************************************************)
(* Model of the prometheus-remote-mcp access gate and JSON-RPC router.     *)
(*                                                                         *)
(*   - the API Gateway token authorizer, in its two variants:              *)
(*       src/lambda/jwt-authorizer.py              (lambda_handler)        *)
(*       src/cdk.out/asset.c0d9.../jwt-authorizer.py (the deployed asset)  *)
(*     together with the process-wide key-set cache (get_jwks, lru_cache)  *)
(*   - the JSON-RPC routers:                                               *)
(*       src/lambda-mcp-wrapper/lambda/stdio_adapter.py  (StdioAdapter)    *)
(*       src/cdk.out/asset.96bd.../lambda_function.py (handle_mcp_request) *)
(*                                                                         *)
(* Python dicts (the event, os.environ, the token header and claims) are   *)
(* functions whose DOMAIN is the set of keys present, so that d['k'] on a  *)
(* missing key (KeyError) and d.get('k', default) are told apart.          *)
(*                                                                         *)
(* PyJWT (jwt.decode, jwt.get_unverified_header) is a third-party library: *)
(* it is modelled by its documented 2.x behaviour at the call sites.       *)
(***************************************************************************)
EXTENDS Integers, Sequences, FiniteSets, TLC

VARIABLES
    deployed, \* which authorizer the function runs: "verifying" or "asset"
    env,      \* os.environ of the authorizer process
    idp,      \* the key set the identity provider publishes right now
    cache,    \* the lru_cache of get_jwks: a sequence of at most LruMaxSize entries
    auth,     \* auth[i]: the i-th authorizer invocation (position, event, result)
    rpc       \* the JSON-RPC router: the request being handled and its response

vars == <<deployed, env, idp, cache, auth, rpc>>

----------------------------------------------------------------------------
(* Bounds of the model *)

\* The exp claim of a token is one of 1..MaxTime; the clock reads MaxTime - 1.
MaxTime == 3

\* An authorizer event and the configuration together differ from the well-formed
\* ones in at most this many places.
MaxDeviations == 2

\* Number of invocations that may overlap in SpecConcurrent.
MaxInvocations == 2

(* Program constants *)

\* @lru_cache(maxsize=1)
LruMaxSize == 1

----------------------------------------------------------------------------
(* Python dict helpers *)

EmptyDict == <<>>

\* d.get(k, default)
Get(d, k, default) == IF k \in DOMAIN d THEN d[k] ELSE default

\* {k: v} when present, {} otherwise (used to build the inputs)
Entry(present, k, v) == IF present THEN (k :> v) ELSE EmptyDict

\* str.split(): the words of a string, given as a sequence of words and " " separators
IsWord(w) == w # " "

Split(s) == SelectSeq(s, IsWord)

\* set(seq)
ToSet(s) == {s[i] : i \in DOMAIN s}

\* str(n) for the integers of the model, digit by digit
Digits == <<"0", "1", "2", "3", "4", "5", "6", "7", "8", "9">>

RECURSIVE Str(_)
Str(n) == IF n < 10 THEN Digits[n + 1] ELSE Str(n \div 10) \o Digits[(n % 10) + 1]


----------------------------------------------------------------------------
(* The identity provider (external): GET <jwks endpoint for region+pool>    *)

\* The pool that exists at the provider, and the region it lives in.
PoolRegion == "us-east-1"
PoolId == "pool1"

\* https://cognito-idp.{region}.amazonaws.com/{user_pool_id}
IssuerUrl(region, pool) == <<"https://cognito-idp.", region, ".amazonaws.com/", pool>>

\* The JWKs the provider may publish: kid and public key material (modulus n).
Jwk(k, n) == [kid |-> k, n |-> n]

AllJwks == {Jwk("k1", "n1"), Jwk("k2", "n2")}

\* Key pairs a token may be signed with: the provider's, or one of the attacker's.
SigningKeys == {"n1", "n2", "forged"}

----------------------------------------------------------------------------
(* Inputs: tokens and authorizer events *)

Absent == "ABSENT"
AbsentSeq == <<Absent>>

Times == 1..MaxTime

\* The clock jwt.decode reads: expiry times before, at and after it exist.
Now == MaxTime - 1

GoodIssuer == IssuerUrl(PoolRegion, PoolId)
OtherIssuer == IssuerUrl(PoolRegion, "pool2")

\* A scope string is its words and the " " between them.
ScopeStrings == { <<>>, <<"s1">>, <<"s2">>, <<"s1", " ", "s2">>, <<"s2", " ", "s1">> }

\* The values each part of an event is chosen from
ChoiceValues ==
    [ scheme  |-> {"Bearer ", ""},
      hasTok  |-> {TRUE, FALSE},
      arn     |-> {"arn:aws:execute-api:GET/health", "arn:aws:execute-api:POST/mcp", Absent},
      parses  |-> {TRUE, FALSE},
      alg     |-> {"RS256", "HS256"},
      kid     |-> {"k1", "k2", Absent},
      signedBy |-> SigningKeys,
      hasExp  |-> {TRUE, FALSE},
      exp     |-> Times,
      iss     |-> {GoodIssuer, OtherIssuer, AbsentSeq},
      use     |-> {"access", "id", Absent},
      scope   |-> ScopeStrings \cup {AbsentSeq},
      cid     |-> {"client-1", "client-2", Absent} ]

GoodChoice ==
    [ scheme |-> "Bearer ", hasTok |-> TRUE, arn |-> "arn:aws:execute-api:POST/mcp",
      parses |-> TRUE, alg |-> "RS256", kid |-> "k1", signedBy |-> "n1",
      hasExp |-> TRUE, exp |-> MaxTime, iss |-> GoodIssuer, use |-> "access",
      scope |-> <<"s1", " ", "s2">>, cid |-> "client-1" ]

\* The choices that differ from c in at most one part
OneAway(c) ==
    UNION { { [c EXCEPT ![f] = v] : v \in ChoiceValues[f] } : f \in DOMAIN ChoiceValues }

\* The choices that differ from the well-formed one in at most n parts
RECURSIVE ChoicesWithin(_)
ChoicesWithin(n) ==
    IF n = 0 THEN {GoodChoice} ELSE UNION { OneAway(c) : c \in ChoicesWithin(n - 1) }

MalformedToken == [parses |-> FALSE]

MkToken(c) ==
    IF ~c.parses THEN MalformedToken ELSE
    [ parses   |-> TRUE,
      header   |-> ("alg" :> c.alg) @@ Entry(c.kid # Absent, "kid", c.kid),
      signedBy |-> c.signedBy,
      claims   |-> Entry(c.hasExp, "exp", c.exp)
                   @@ Entry(c.iss # AbsentSeq, "iss", c.iss)
                   @@ Entry(c.use # Absent, "token_use", c.use)
                   @@ Entry(c.scope # AbsentSeq, "scope", c.scope)
                   @@ Entry(c.cid # Absent, "client_id", c.cid) ]

\* The authorizer event: {authorizationToken: "Bearer <token>", methodArn}
MkEvent(c) ==
    Entry(c.hasTok, "authorizationToken", [scheme |-> c.scheme, jwt |-> MkToken(c)])
    @@ Entry(c.arn # Absent, "methodArn", c.arn)

EventsWithin == [n \in 0..MaxDeviations |-> { MkEvent(c) : c \in ChoicesWithin(n) }]

\* The events of SpecConcurrent: the well-formed one and one per signing key.
FewEvents == { MkEvent([GoodChoice EXCEPT !.kid = k.kid, !.signedBy = k.n]) : k \in AllJwks }
             \cup { MkEvent([GoodChoice EXCEPT !.signedBy = "forged"]) }

\* os.environ as deployed, and the misconfigurations of it
GoodEnv ==
    [ USER_POOL_ID |-> PoolId, AWS_REGION |-> PoolRegion,
      COGNITO_ISSUER |-> GoodIssuer, REQUIRED_SCOPES |-> <<"s1", " ", "s2">> ]

Without(d, k) == [x \in DOMAIN d \ {k} |-> d[x]]

Envs == {GoodEnv}
        \cup { Without(GoodEnv, k) : k \in DOMAIN GoodEnv }
        \cup { [GoodEnv EXCEPT !.REQUIRED_SCOPES = s] : s \in {<<"s1">>, <<>>} }

EnvDeviations(e) == IF e = GoodEnv THEN 0 ELSE 1

\* The events an invocation may receive under configuration e
Events(e) == EventsWithin[MaxDeviations - EnvDeviations(e)]

----------------------------------------------------------------------------
(* Exceptions and returns.  A step of the handler either returns a value or  *)
(* raises: cls is the exception class (it selects the except clause), msg    *)
(* the text that is logged.                                                  *)

Raise(cls, msg) == [raised |-> TRUE, cls |-> cls, msg |-> msg]

Return(v) == [raised |-> FALSE, value |-> v]

\* PyJWT's exception classes that derive from InvalidTokenError
InvalidTokenErrors ==
    { "DecodeError", "InvalidAlgorithmError", "MissingRequiredClaimError",
      "InvalidTokenError" }

----------------------------------------------------------------------------
(* src/lambda/jwt-authorizer.py: the verifying authorizer *)

\* event['authorizationToken'].replace('Bearer ', '')
StripBearer(authorizationToken) == authorizationToken.jwt

\* os.environ.get('AWS_REGION', 'us-west-2')
Region(e) == Get(e, "AWS_REGION", "us-west-2")

\* Lines 19-23: the token and the configuration, in the order they are read.
ReadInputs(e, event) ==
    IF "authorizationToken" \notin DOMAIN event THEN Raise("KeyError", "authorizationToken")
    ELSE IF "USER_POOL_ID" \notin DOMAIN e THEN Raise("KeyError", "USER_POOL_ID")
    ELSE IF "COGNITO_ISSUER" \notin DOMAIN e THEN Raise("KeyError", "COGNITO_ISSUER")
    ELSE IF "REQUIRED_SCOPES" \notin DOMAIN e THEN Raise("KeyError", "REQUIRED_SCOPES")
    ELSE Return([ token           |-> StripBearer(event["authorizationToken"]),
                  user_pool_id    |-> e["USER_POOL_ID"],
                  region          |-> Region(e),
                  expected_issuer |-> e["COGNITO_ISSUER"],
                  required_scopes |-> ToSet(Split(e["REQUIRED_SCOPES"])) ])

\* jwt.get_unverified_header(token)
GetUnverifiedHeader(token) ==
    IF ~token.parses THEN Raise("DecodeError", "Not enough segments")
    ELSE Return(token.header)

\* next((k for k in jwks['keys'] if k['kid'] == header['kid']), None); if not key: raise
\* header['kid'] is evaluated for the first key of the set, if there is one.
FindKey(jwks, header) ==
    IF jwks = {} THEN Raise("Exception", "Public key not found in JWKS")
    ELSE IF "kid" \notin DOMAIN header THEN Raise("KeyError", "kid")
    ELSE IF \E k \in jwks : k.kid = header["kid"]
         THEN Return(CHOOSE k \in jwks : k.kid = header["kid"])
         ELSE Raise("Exception", "Public key not found in JWKS")

\* RSAAlgorithm.from_jwk(key)
FromJwk(key) == key.n

\* The signature of the token verifies under public_key.
SignatureVerifies(token, public_key) == token.signedBy = public_key

\* The header algorithm is one of algorithms=['RS256'].
AlgorithmAllowed(header) == Get(header, "alg", Absent) \in {"RS256"}

\* verify_exp: PyJWT raises when exp <= now (leeway 0).
Expired(claims, now) == "exp" \in DOMAIN claims /\ claims["exp"] <= now

\* jwt.decode(token, public_key, algorithms=['RS256'], issuer=expected_issuer,
\*            options={verify_exp, verify_iss, verify_signature: True})
JwtDecode(token, public_key, expected_issuer, now) ==
    IF ~token.parses THEN Raise("DecodeError", "Not enough segments")
    ELSE IF ~AlgorithmAllowed(token.header)
         THEN Raise("InvalidAlgorithmError", "The specified alg value is not allowed")
    ELSE IF ~SignatureVerifies(token, public_key)
         THEN Raise("InvalidSignatureError", "Signature verification failed")
    ELSE IF Expired(token.claims, now)
         THEN Raise("ExpiredSignatureError", "Signature has expired")
    ELSE IF "iss" \notin DOMAIN token.claims
         THEN Raise("MissingRequiredClaimError", "iss")
    ELSE IF token.claims["iss"] # expected_issuer
         THEN Raise("InvalidIssuerError", "Invalid issuer")
    ELSE Return(token.claims)

\* A faulty variant of TokenUseOk: an absent token_use claim is taken for 'access'.
TokenUseOkWhenAbsent(claims) == Get(claims, "token_use", "access") = "access"

\* Line 50: claims.get('token_use') != 'access'
TokenUseOk(claims) == Get(claims, "token_use", Absent) = "access"

\* Lines 54-55: required_scopes.issubset(set(claims.get('scope', '').split()))
TokenScopes(claims) == ToSet(Split(Get(claims, "scope", <<>>)))

ScopesOk(required_scopes, claims) == required_scopes \subseteq TokenScopes(claims)

\* Lines 61-77: the Allow policy (claims['client_id'], claims['iss'], claims['exp']
\* and event['methodArn'] are present when this is evaluated)
AllowPolicy(claims, event) ==
    [ principalId    |-> claims["client_id"],
      policyDocument |->
          [ Version   |-> "2012-10-17",
            Statement |-> << [ Action   |-> "execute-api:Invoke",
                               Effect   |-> "Allow",
                               Resource |-> event["methodArn"] ] >> ],
      context        |->
          [ clientId  |-> claims["client_id"],
            scope     |-> Get(claims, "scope", <<>>),
            issuer    |-> claims["iss"],
            expiresAt |-> Str(claims["exp"]) ] ]

\* Lines 46-80: what follows jwt.decode
AfterDecode(claims, required_scopes, event) ==
    IF "exp" \notin DOMAIN claims THEN Raise("KeyError", "exp")
    ELSE IF ~TokenUseOk(claims) THEN Raise("Exception", "Invalid token_use")
    ELSE IF ~ScopesOk(required_scopes, claims) THEN Raise("Exception", "Insufficient scopes")
    ELSE IF "client_id" \notin DOMAIN claims THEN Raise("KeyError", "client_id")
    ELSE IF "methodArn" \notin DOMAIN event THEN Raise("KeyError", "methodArn")
    ELSE Return(AllowPolicy(claims, event))

\* Lines 30-80: from the key lookup on, given the key set get_jwks returned
VerifyWithJwks(inp, header, jwks, event, now) ==
    LET key == FindKey(jwks, header) IN
    IF key.raised THEN key
    ELSE LET claims == JwtDecode(inp.token, FromJwk(key.value), inp.expected_issuer, now) IN
         IF claims.raised THEN claims
         ELSE AfterDecode(claims.value, inp.required_scopes, event)

\* Lines 82-96: the except clauses; each logs its own text and raises
\* Exception('Unauthorized').
ExceptClause(exc) ==
    [ error |-> "Unauthorized",
      log   |-> IF exc.cls = "ExpiredSignatureError" THEN <<"Token expired">>
                ELSE IF exc.cls = "InvalidIssuerError" THEN <<"Invalid issuer - ", exc.msg>>
                ELSE IF exc.cls = "InvalidSignatureError"
                     THEN <<"Invalid signature - Token may be forged">>
                ELSE IF exc.cls \in InvalidTokenErrors THEN <<"Invalid token - ", exc.msg>>
                ELSE <<exc.msg>> ]

\* What the caller of lambda_handler observes: a returned policy, or a raised error
Outcome(step) ==
    IF step.raised
    THEN [ kind |-> "raise", error |-> ExceptClause(step).error, cls |-> step.cls,
           log |-> ExceptClause(step).log ]
    ELSE [ kind |-> "return", policy |-> step.value ]

----------------------------------------------------------------------------
(* src/cdk.out/asset.c0d9.../jwt-authorizer.py: the authorizer asset *)

\* jwt.decode(token, options={"verify_signature": False}, algorithms=["RS256"]):
\* the token is parsed; neither signature, algorithm, exp nor iss is checked.
AssetDecode(token) ==
    IF ~token.parses THEN Raise("DecodeError", "Not enough segments")
    ELSE Return(token.claims)

\* Lines 28-35: the issuer the token is compared with
AssetExpectedIssuer(e, decoded_token) ==
    IF "USER_POOL_ID" \in DOMAIN e
    THEN IssuerUrl(Region(e), e["USER_POOL_ID"])
    ELSE Get(decoded_token, "iss", AbsentSeq)

\* Lines 37-39: a mismatch is printed, not raised
AssetIssuerMismatchLogged(e, decoded_token) ==
    Get(decoded_token, "iss", AbsentSeq) # AssetExpectedIssuer(e, decoded_token)

\* Lines 42-58
AssetPolicy(decoded_token, event) ==
    [ principalId    |-> decoded_token["client_id"],
      policyDocument |->
          [ Version   |-> "2012-10-17",
            Statement |-> << [ Action   |-> "execute-api:Invoke",
                               Effect   |-> "Allow",
                               Resource |-> event["methodArn"] ] >> ],
      context        |->
          [ clientId |-> decoded_token["client_id"],
            scope    |-> Get(decoded_token, "scope", <<>>) ] ]

\* Lines 10-61: the body of the try
AssetTry(e, event) ==
    IF "authorizationToken" \notin DOMAIN event THEN Raise("KeyError", "authorizationToken")
    ELSE LET decoded == AssetDecode(StripBearer(event["authorizationToken"])) IN
         IF decoded.raised THEN decoded
         ELSE IF ~TokenUseOk(decoded.value) THEN Raise("Exception", "Invalid token use")
         ELSE IF "client_id" \notin DOMAIN decoded.value THEN Raise("KeyError", "client_id")
         ELSE IF "methodArn" \notin DOMAIN event THEN Raise("KeyError", "methodArn")
         ELSE Return(AssetPolicy(decoded.value, event))

\* Lines 63-65: the single except clause
AssetExceptClause(exc) == [error |-> "Unauthorized", log |-> <<exc.msg>>]

AssetOutcome(step) ==
    IF step.raised
    THEN [ kind |-> "raise", error |-> AssetExceptClause(step).error, cls |-> step.cls,
           log |-> AssetExceptClause(step).log ]
    ELSE [ kind |-> "return", policy |-> step.value ]

----------------------------------------------------------------------------
(* get_jwks and its lru_cache(maxsize=1), keyed by (region, user_pool_id) *)

LruHit(c, args) == \E i \in DOMAIN c : c[i].args = args

LruValue(c, args) == c[CHOOSE i \in DOMAIN c : c[i].args = args].value

\* The wrapper stores the result of the call unless the key was stored meanwhile;
\* a full cache drops its oldest entry.
LruStore(c, args, value) ==
    IF LruHit(c, args) THEN c
    ELSE LET grown == Append(c, [args |-> args, value |-> value]) IN
         IF Len(grown) > LruMaxSize THEN Tail(grown) ELSE grown

\* The endpoint answers for the pool that exists, in its region.
JwksEndpointExists(args) == args = <<PoolRegion, PoolId>>

----------------------------------------------------------------------------
(* State *)

Invocations == 1..MaxInvocations

Idle == [pc |-> "idle"]

\* A finished invocation: what it was given, how the key set was obtained
\* (lookup: "hit", "miss" or "none"; fetches: network fetches made; jwks: the key
\* set used) and what its caller observes.
Done(event, lookup, fetches, jwks, out) ==
    [ pc |-> "done", handler |-> deployed, event |-> event, lookup |-> lookup,
      fetches |-> fetches, jwks |-> jwks, out |-> out ]

Init ==
    /\ deployed \in {"verifying", "asset"}
    /\ env \in Envs
    /\ idp = {Jwk("k1", "n1")}
    /\ cache = <<>>
    /\ auth = [i \in Invocations |-> Idle]
    /\ rpc = Idle

\* lambda_handler up to the call of get_jwks: a cache hit runs to the end, a miss
\* leaves the invocation waiting for the network.
LambdaHandlerBegin(i, event) ==
    /\ deployed = "verifying"
    /\ auth[i].pc = "idle"
    /\ LET inp == ReadInputs(env, event) IN
       IF inp.raised
       THEN auth' = [auth EXCEPT ![i] = Done(event, "none", 0, {}, Outcome(inp))]
       ELSE LET header == GetUnverifiedHeader(inp.value.token)
                args   == <<inp.value.region, inp.value.user_pool_id>> IN
            IF header.raised
            THEN auth' = [auth EXCEPT ![i] = Done(event, "none", 0, {}, Outcome(header))]
            ELSE IF LruHit(cache, args)
            THEN auth' = [auth EXCEPT ![i] =
                             Done(event, "hit", 0, LruValue(cache, args),
                                  Outcome(VerifyWithJwks(inp.value, header.value,
                                                         LruValue(cache, args), event, Now)))]
            ELSE auth' = [auth EXCEPT ![i] =
                             [pc |-> "fetching", handler |-> deployed, event |-> event,
                              args |-> args]]
    /\ UNCHANGED <<deployed, env, idp, cache, rpc>>

\* urlopen returns the published key set: it is cached, and the handler runs on.
GetJwksReturn(i) ==
    /\ auth[i].pc = "fetching"
    /\ JwksEndpointExists(auth[i].args)
    /\ LET event  == auth[i].event
           inp    == ReadInputs(env, event).value
           header == GetUnverifiedHeader(inp.token).value IN
       auth' = [auth EXCEPT ![i] =
                   Done(event, "miss", 1, idp,
                        Outcome(VerifyWithJwks(inp, header, idp, event, Now)))]
    /\ cache' = LruStore(cache, auth[i].args, idp)
    /\ UNCHANGED <<deployed, env, idp, rpc>>

\* A faulty variant of GetJwksFail: the failure is cached as an empty key set.
GetJwksFailCached(i) ==
    /\ auth[i].pc = "fetching"
    /\ auth' = [auth EXCEPT ![i] =
                   Done(auth[i].event, "miss", 1, {},
                        Outcome(Raise("URLError", "urlopen error")))]
    /\ cache' = LruStore(cache, auth[i].args, {})
    /\ UNCHANGED <<deployed, env, idp, rpc>>

\* urlopen or json.loads raises: nothing is cached, the handler rejects.
GetJwksFail(i) ==
    /\ auth[i].pc = "fetching"
    /\ auth' = [auth EXCEPT ![i] =
                   Done(auth[i].event, "miss", 1, {},
                        Outcome(Raise("URLError", "urlopen error")))]
    /\ UNCHANGED <<deployed, env, idp, cache, rpc>>

\* The asset's lambda_handler: no key set, no network.
AssetLambdaHandler(i, event) ==
    /\ deployed = "asset"
    /\ auth[i].pc = "idle"
    /\ auth' = [auth EXCEPT ![i] =
                   Done(event, "none", 0, {}, AssetOutcome(AssetTry(env, event)))]
    /\ UNCHANGED <<deployed, env, idp, cache, rpc>>

\* The invocation ends; API Gateway has the policy or the error.
LambdaHandlerEnd(i) ==
    /\ auth[i].pc = "done"
    /\ auth' = [auth EXCEPT ![i] = Idle]
    /\ UNCHANGED <<deployed, env, idp, cache, rpc>>

\* The identity provider rotates its keys: it publishes one, or withdraws one.
\* (A finished invocation is delivered before the next rotation is looked at.)
NoneDone == \A i \in Invocations : auth[i].pc # "done"

PublishKey(k) ==
    /\ NoneDone
    /\ k \notin idp
    /\ idp' = idp \cup {k}
    /\ UNCHANGED <<deployed, env, cache, auth, rpc>>

WithdrawKey(k) ==
    /\ NoneDone
    /\ k \in idp
    /\ idp # {k}
    /\ idp' = idp \ {k}
    /\ UNCHANGED <<deployed, env, cache, auth, rpc>>

\* The process is replaced (cold start): module state starts afresh.
ColdStart ==
    /\ \A i \in Invocations : auth[i].pc = "idle"
    /\ cache # <<>>
    /\ cache' = <<>>
    /\ UNCHANGED <<deployed, env, idp, auth, rpc>>

IdpNext ==
    \/ \E k \in AllJwks : PublishKey(k)
    \/ \E k \in AllJwks : WithdrawKey(k)

\* One authorizer invocation at a time, any event.
Next ==
    \/ \E e \in Events(env) : LambdaHandlerBegin(1, e)
    \/ GetJwksReturn(1)
    \/ GetJwksFail(1)
    \/ \E e \in Events(env) : AssetLambdaHandler(1, e)
    \/ LambdaHandlerEnd(1)
    \/ IdpNext
    \/ ColdStart

Spec == Init /\ [][Next]_vars

\* Overlapping invocations of the verifying authorizer in one process, which
\* share the key-set cache; the network call of get_jwks is the suspension point.
InitConcurrent ==
    /\ deployed = "verifying"
    /\ env = GoodEnv
    /\ idp = {Jwk("k1", "n1")}
    /\ cache = <<>>
    /\ auth = [i \in Invocations |-> Idle]
    /\ rpc = Idle

NextConcurrent ==
    \/ \E i \in Invocations, e \in FewEvents : LambdaHandlerBegin(i, e)
    \/ \E i \in Invocations : GetJwksReturn(i)
    \/ \E i \in Invocations : GetJwksFail(i)
    \/ \E i \in Invocations : LambdaHandlerEnd(i)
    \/ IdpNext
    \/ ColdStart

SpecConcurrent == InitConcurrent /\ [][NextConcurrent]_vars

\* get_jwks on its own, called with any issuer pair: the cache of lru_cache
\* answers when it holds the arguments, otherwise the body runs and its return
\* value is stored; an exception of the body is stored nowhere.
IssuerPairs == {<<PoolRegion, PoolId>>, <<PoolRegion, "pool2">>, <<"us-west-2", PoolId>>}

GetJwksCall(i, args) ==
    /\ auth[i].pc = "idle"
    /\ auth' = [auth EXCEPT ![i] =
                   IF LruHit(cache, args)
                   THEN [ pc |-> "returned", args |-> args, lookup |-> "hit",
                          fetches |-> 0, jwks |-> LruValue(cache, args) ]
                   ELSE [ pc |-> "fetching", args |-> args ]]
    /\ UNCHANGED <<deployed, env, idp, cache, rpc>>

\* urlopen answers and json.loads parses: the key set is returned and stored.
GetJwksFetched(i) ==
    /\ auth[i].pc = "fetching"
    /\ auth' = [auth EXCEPT ![i] =
                   [ pc |-> "returned", args |-> auth[i].args, lookup |-> "miss",
                     fetches |-> 1, jwks |-> idp ]]
    /\ cache' = LruStore(cache, auth[i].args, idp)
    /\ UNCHANGED <<deployed, env, idp, rpc>>

\* urlopen or json.loads raises: the exception reaches the caller.
GetJwksRaised(i) ==
    /\ auth[i].pc = "fetching"
    /\ auth' = [auth EXCEPT ![i] =
                   [ pc |-> "returned", args |-> auth[i].args, lookup |-> "raised",
                     fetches |-> 1, jwks |-> {} ]]
    /\ UNCHANGED <<deployed, env, idp, cache, rpc>>

GetJwksDone(i) ==
    /\ auth[i].pc = "returned"
    /\ auth' = [auth EXCEPT ![i] = Idle]
    /\ UNCHANGED <<deployed, env, idp, cache, rpc>>

NextCache ==
    \/ \E args \in IssuerPairs : GetJwksCall(1, args)
    \/ GetJwksFetched(1)
    \/ GetJwksRaised(1)
    \/ GetJwksDone(1)
    \/ IdpNext
    \/ ColdStart

SpecCache == InitConcurrent /\ [][NextCache]_vars

----------------------------------------------------------------------------
(* Vocabulary of the authorizer claims *)

Finished(i) == auth[i].pc = "done"

HasToken(a) == "authorizationToken" \in DOMAIN a.event /\ a.event["authorizationToken"].jwt.parses

TokenOf(a) == a.event["authorizationToken"].jwt

Allowed(a) == a.out.kind = "return"

Rejected(a) == a.out.kind = "raise"

\* The key of the set a used that carries the kid of the token's header verifies
\* the token's signature.
VerifiedByKeySet(a) ==
    /\ "kid" \in DOMAIN TokenOf(a).header
    /\ \E k \in a.jwks : k.kid = TokenOf(a).header["kid"] /\ k.n = TokenOf(a).signedBy

----------------------------------------------------------------------------
\* C1: the gate returns an Allow policy only for a token whose signature was
\* verified, with RS256, under a key of the identity provider's key set; a forged
\* signature or another header algorithm is always rejected.  (Stated for every
\* authorizer of the repository; the asset decodes without verification.)
C1_AllowOnlyVerified ==
    \A i \in Invocations :
        (Finished(i) /\ Allowed(auth[i])) =>
            /\ HasToken(auth[i])
            /\ TokenOf(auth[i]).header["alg"] = "RS256"
            /\ auth[i].jwks \subseteq AllJwks
            /\ VerifiedByKeySet(auth[i])

\* C3: a token whose exp is in the past (now > exp), or whose iss is not the
\* configured expected issuer, never yields an Allow policy.
C3_ExpiredOrWrongIssuerRejected ==
    \A i \in Invocations :
        (/\ Finished(i)
         /\ HasToken(auth[i])
         /\ \/ /\ "exp" \in DOMAIN TokenOf(auth[i]).claims
               /\ Now > TokenOf(auth[i]).claims["exp"]
            \/ /\ "COGNITO_ISSUER" \in DOMAIN env
               /\ Get(TokenOf(auth[i]).claims, "iss", AbsentSeq) # env["COGNITO_ISSUER"])
        => Rejected(auth[i])

\* C4: a token is authorized only if the required scopes are a subset of the
\* space-separated scopes of its scope claim (none when the claim is absent).
C4_RequiredScopesSubset ==
    \A i \in Invocations :
        (/\ Finished(i)
         /\ HasToken(auth[i])
         /\ "REQUIRED_SCOPES" \in DOMAIN env
         /\ \E r \in ToSet(env["REQUIRED_SCOPES"]) \ {" "} :
                r \notin ToSet(Get(TokenOf(auth[i]).claims, "scope", <<>>)))
        => Rejected(auth[i])

\* Everything but token_use is in order for the verifying authorizer: it is
\* configured, the key set it used verifies the RS256 signature, the token has
\* not expired and carries the expected issuer.
AllButTokenUseValid(a) ==
    /\ {"USER_POOL_ID", "COGNITO_ISSUER", "REQUIRED_SCOPES"} \subseteq DOMAIN env
    /\ TokenOf(a).header["alg"] = "RS256"
    /\ VerifiedByKeySet(a)
    /\ "exp" \in DOMAIN TokenOf(a).claims
    /\ TokenOf(a).claims["exp"] > Now
    /\ "iss" \in DOMAIN TokenOf(a).claims
    /\ TokenOf(a).claims["iss"] = env["COGNITO_ISSUER"]

WrongTokenUse(a) ==
    \/ "token_use" \notin DOMAIN TokenOf(a).claims
    \/ TokenOf(a).claims["token_use"] # "access"

\* C5: a token whose token_use claim is not "access" (or is absent) is rejected,
\* and for the wrong token type when signature, expiry and issuer are valid.
C5_WrongTokenUseRejected ==
    \A i \in Invocations :
        (Finished(i) /\ HasToken(auth[i]) /\ WrongTokenUse(auth[i])) =>
            /\ Rejected(auth[i])
            /\ auth[i].out.error = "Unauthorized"
            /\ (auth[i].handler = "verifying" /\ AllButTokenUseValid(auth[i]))
                   => auth[i].out.log = <<"Invalid token_use">>
            /\ auth[i].handler = "asset" => auth[i].out.log = <<"Invalid token use">>

\* A verified, unexpired token of the expected issuer with no token_use claim is
\* rejected for its token type.
C5_Witness ==
    \E i \in Invocations :
        /\ Finished(i)
        /\ auth[i].handler = "verifying"
        /\ HasToken(auth[i])
        /\ "token_use" \notin DOMAIN TokenOf(auth[i]).claims
        /\ AllButTokenUseValid(auth[i])
        /\ Rejected(auth[i])
        /\ auth[i].out.log = <<"Invalid token_use">>

\* What the caller of the gate can observe of an outcome
Observed(o) ==
    IF o.kind = "raise" THEN [raised |-> TRUE, error |-> o.error]
    ELSE [raised |-> FALSE, policy |-> o.policy]

\* The authorization failures of a finished invocation that its inputs alone
\* decide: no or malformed token, a header algorithm other than RS256, a signature
\* that no key the provider publishes under the header's kid verifies, an exp in
\* the past or absent, an issuer other than the configured one, a wrong token_use,
\* a required scope the token lacks.
AuthorizationFailure(a) ==
    \/ ~HasToken(a)
    \/ /\ HasToken(a)
       /\ \/ TokenOf(a).header["alg"] # "RS256"
          \/ "kid" \notin DOMAIN TokenOf(a).header
          \/ ~\E k \in AllJwks : /\ k.kid = Get(TokenOf(a).header, "kid", Absent)
                                 /\ k.n = TokenOf(a).signedBy
          \/ "exp" \notin DOMAIN TokenOf(a).claims
          \/ Now > Get(TokenOf(a).claims, "exp", Now)
          \/ /\ "COGNITO_ISSUER" \in DOMAIN env
             /\ Get(TokenOf(a).claims, "iss", AbsentSeq) # env["COGNITO_ISSUER"]
          \/ WrongTokenUse(a)
          \/ /\ "REQUIRED_SCOPES" \in DOMAIN env
             /\ \E r \in ToSet(env["REQUIRED_SCOPES"]) \ {" "} :
                    r \notin ToSet(Get(TokenOf(a).claims, "scope", <<>>))

\* C6: on every authorization failure, and whenever the gate fails, the caller
\* observes the same generic 'Unauthorized' error, whichever check failed, and
\* no policy document is returned.
C6_FailuresAreUniform ==
    \A i \in Invocations :
        (Finished(i) /\ (AuthorizationFailure(auth[i]) \/ Rejected(auth[i]))) =>
            /\ Observed(auth[i].out) = [raised |-> TRUE, error |-> "Unauthorized"]
            /\ "policy" \notin DOMAIN auth[i].out

\* C7: when the key ID of the token is absent from the cached key set, exactly one
\* re-fetch is made before failing, so that a key published since is found.
C7_RefetchOnKeyMiss ==
    \A i \in Invocations :
        (/\ Finished(i)
         /\ auth[i].handler = "verifying"
         /\ auth[i].lookup = "hit"
         /\ "kid" \in DOMAIN TokenOf(auth[i]).header
         /\ ~ \E k \in auth[i].jwks : k.kid = TokenOf(auth[i]).header["kid"])
        => /\ auth[i].fetches = 1
           /\ (\E k \in idp : k.kid = TokenOf(auth[i]).header["kid"])
                  => auth[i].out.log # <<"Public key not found in JWKS">>

\* C8: at most one key-set fetch per issuer pair is in flight at a time.
C8_SingleFlight ==
    \A i, j \in Invocations :
        (/\ auth[i].pc = "fetching"
         /\ auth[j].pc = "fetching"
         /\ auth[i].args = auth[j].args)
        => i = j

\* C9: on success the policy has the single statement (execute-api:Invoke, Allow,
\* methodArn), principalId and context.clientId equal to the client_id claim, and
\* a context with clientId, scope, issuer and expiresAt from the verified claims.
C9_AllowPolicyShape ==
    \A i \in Invocations :
        (Finished(i) /\ Allowed(auth[i])) =>
            LET p == auth[i].out.policy
                c == TokenOf(auth[i]).claims IN
            /\ p.policyDocument.Statement =
                   << [ Action |-> "execute-api:Invoke", Effect |-> "Allow",
                        Resource |-> auth[i].event["methodArn"] ] >>
            /\ p.principalId = c["client_id"]
            /\ DOMAIN p.context = {"clientId", "scope", "issuer", "expiresAt"}
            /\ p.context["clientId"] = c["client_id"]
            /\ p.context["scope"] = Get(c, "scope", <<>>)
            /\ p.context["issuer"] = c["iss"]
            /\ p.context["expiresAt"] = Digits[c["exp"] + 1]

----------------------------------------------------------------------------
(* JSON values and Python objects of the router                             *)
(*                                                                          *)
(* A JSON scalar carries its type and its text, so that the integer 1 and   *)
(* the string "1" differ.  JSON null and a missing key both read as None.   *)

None == [t |-> "null"]

JInt(text) == [t |-> "int", n |-> text]

JStr(text) == [t |-> "str", s |-> text]

\* A JSON object: its keys and values
JObj(d) == [t |-> "dict", d |-> d]

\* A JSON array
JList(items) == [t |-> "list", items |-> items]

\* format(v) inside an f-string, for a string or None
Format(v) == IF v = None THEN "None" ELSE v.s

\* bool(v) of a JSON value: None, "", 0, [] and {} are falsy
Truthy(v) ==
    IF v.t = "null" THEN FALSE
    ELSE IF v.t = "str" THEN v.s # ""
    ELSE IF v.t = "int" THEN v.n # "0"
    ELSE IF v.t = "list" THEN v.items # <<>>
    ELSE DOMAIN v.d # {}

\* request.get(k) / request.get(k, default) on the decoded envelope
RGet(request, k, default) == Get(request, k, default)

----------------------------------------------------------------------------
(* Inputs of the router *)

RequestIds == { JInt("1"), JInt("0"), JStr("1"), JStr("req-a"), None }

Methods ==
    { JStr("initialize"), JStr("notifications/initialized"), JStr("tools/list"),
      JStr("tools/call"), JStr("notifications/cancelled"), JStr("resources/list"),
      JStr("Initialize"), None }

\* The tool catalog of the deployment, in registry order
DeclaredTools ==
    << "GetAvailableWorkspaces", "ExecuteQuery", "ExecuteRangeQuery", "ListMetrics",
       "GetServerInfo" >>

ToolArguments == JObj([workspace_id |-> JStr("ws-123"), query |-> JStr("up")])

ToolNames == { JStr("ExecuteQuery"), JStr("GetServerInfo"), JStr("NoSuchTool"), JStr(""), None }

\* params: missing, null, an array, or an object with or without name and arguments
ParamsValues ==
    { None, JList(<<JStr("ExecuteQuery")>>), JObj(EmptyDict), JObj([arguments |-> ToolArguments]) }
    \cup { JObj([name |-> n]) : n \in ToolNames }
    \cup { JObj([name |-> n, arguments |-> ToolArguments]) : n \in ToolNames }
    \cup { JObj([name |-> JStr("ExecuteQuery"), arguments |-> None]) }

Requests ==
    { Entry(TRUE, "jsonrpc", JStr("2.0"))
      @@ Entry(c.hasMethod, "method", c.method)
      @@ Entry(c.hasId, "id", c.id)
      @@ Entry(c.hasParams, "params", c.params) :
        c \in [ hasMethod : BOOLEAN, method : Methods, hasId : BOOLEAN, id : RequestIds,
                hasParams : BOOLEAN, params : ParamsValues ] }

----------------------------------------------------------------------------
(* The tool manager of the MCP server (FastMCP, external): what call_tool may *)
(* hand back to the adapter.                                                  *)

\* An object with attributes: t names its class, v holds its fields.
TextContent(text) == [t |-> "TextContent", attrs |-> [type |-> JStr("text"), text |-> JStr(text)]]

\* The same model in a release whose blocks carry an annotations field
AnnotatedTextContent(text) ==
    [t |-> "TextContent",
     attrs |-> [type |-> JStr("text"), text |-> JStr(text), annotations |-> None]]

\* An object with type and text attributes that is no pydantic model
PlainBlock(text) == [t |-> "object", attrs |-> [type |-> JStr("text"), text |-> JStr(text)]]

PyTuple(items) == [t |-> "tuple", items |-> items]

\* hasattr(x, name)
HasAttr(x, name) ==
    IF x.t \in {"TextContent", "BaseModel"} THEN name \in DOMAIN x.attrs \cup {"model_dump"}
    ELSE IF x.t = "object" THEN name \in DOMAIN x.attrs
    ELSE FALSE

\* x.model_dump(): the fields of the model as a dict
ModelDump(x) == JObj(x.attrs)

QueryResult == JObj([resultType |-> JStr("vector"), result |-> JList(<<>>)])

Metadata == JObj([result |-> JStr("ok")])

\* The values a tool that exists may return
ToolReturns ==
    { None,
      PyTuple(<<JList(<<TextContent("up 1")>>), Metadata>>),
      PyTuple(<<JList(<<TextContent("a"), PlainBlock("b"), JStr("c")>>), Metadata>>),
      PyTuple(<<JList(<<>>), Metadata>>),
      TextContent("up 1"),
      AnnotatedTextContent("up 1"),
      PlainBlock("up 1"),
      JList(<<TextContent("a"), PlainBlock("b")>>),
      JList(<<JStr("m1"), JStr("m2")>>),
      JList(<<JStr("m1"), PlainBlock("b")>>),
      JList(<<>>),
      QueryResult,
      JStr("up") }

IsDeclared(name) == \E i \in DOMAIN DeclaredTools : name = JStr(DeclaredTools[i])

\* call_tool(name, arguments): an unknown name raises; a known tool raises or returns.
ToolOutcomes(name) ==
    IF ~IsDeclared(name)
    THEN { Raise("ToolError", "Unknown tool: " \o Format(name)) }
    ELSE { Raise("ToolError", "Error executing tool " \o Format(name) \o ": connection refused") }
         \cup { Return(r) : r \in ToolReturns }

----------------------------------------------------------------------------
(* json.dumps(value, indent=2): the JSON text; a value that holds an object    *)
(* that is no JSON type raises TypeError.                                      *)

RECURSIVE Serializable(_)
Serializable(x) ==
    IF x.t \in {"null", "int", "str"} THEN TRUE
    ELSE IF x.t \in {"list", "tuple"} THEN \A i \in DOMAIN x.items : Serializable(x.items[i])
    ELSE IF x.t = "dict" THEN \A k \in DOMAIN x.d : Serializable(x.d[k])
    ELSE FALSE

\* The texts of a sequence, joined by ", "
RECURSIVE Join(_)
Join(texts) ==
    IF texts = <<>> THEN ""
    ELSE IF Len(texts) = 1 THEN Head(texts)
    ELSE Head(texts) \o ", " \o Join(Tail(texts))

\* The keys of a dict in the order json.dumps writes them
RECURSIVE KeyOrder(_)
KeyOrder(keys) ==
    IF keys = {} THEN <<>>
    ELSE LET k == CHOOSE x \in keys : TRUE IN <<k>> \o KeyOrder(keys \ {k})

RECURSIVE Dumps(_)
Dumps(x) ==
    IF x.t = "null" THEN "null"
    ELSE IF x.t = "int" THEN x.n
    ELSE IF x.t = "str" THEN "\"" \o x.s \o "\""
    ELSE IF x.t \in {"list", "tuple"}
         THEN "[" \o Join([i \in DOMAIN x.items |-> Dumps(x.items[i])]) \o "]"
    ELSE LET ks == KeyOrder(DOMAIN x.d) IN
         "{" \o Join([i \in DOMAIN ks |-> "\"" \o ks[i] \o "\": " \o Dumps(x.d[ks[i]])]) \o "}"

JsonDumps(x) ==
    IF Serializable(x) THEN Return(Dumps(x))
    ELSE Raise("TypeError", "Object is not JSON serializable")

----------------------------------------------------------------------------
(* src/lambda-mcp-wrapper/lambda/stdio_adapter.py: StdioAdapter *)

\* A faulty variant of ErrorResponse: an error response carries a null id.
ErrorResponseNullId(request_id, code, message) ==
    [ jsonrpc |-> "2.0", id |-> None, error |-> [code |-> code, message |-> message] ]

\* A JSON-RPC error response
ErrorResponse(request_id, code, message) ==
    [ jsonrpc |-> "2.0", id |-> request_id, error |-> [code |-> code, message |-> message] ]

\* A faulty variant of ResultResponse: a request with a null id gets no result.
ResultResponseSilentOnNullId(request_id, result) ==
    IF request_id = None THEN [ jsonrpc |-> "2.0", id |-> None ]
    ELSE [ jsonrpc |-> "2.0", id |-> request_id, result |-> result ]

\* A JSON-RPC result response
ResultResponse(request_id, result) ==
    [ jsonrpc |-> "2.0", id |-> request_id, result |-> result ]

\* A faulty variant of HandleInitialize: an older protocol version, no serverInfo version.
HandleInitializeOldProtocol(request_id) ==
    ResultResponse(request_id,
        [ protocolVersion |-> "2024-10-07",
          capabilities    |-> [tools |-> EmptyDict],
          serverInfo      |-> [name |-> "awslabs-prometheus-mcp-server"] ])

\* _handle_initialize
HandleInitialize(request_id) ==
    ResultResponse(request_id,
        [ protocolVersion |-> "2024-11-05",
          capabilities    |-> [tools |-> EmptyDict],
          serverInfo      |-> [name |-> "awslabs-prometheus-mcp-server", version |-> "1.0.0"] ])

\* The Tool objects list_tools() returns: name, description, parameters_json_schema
RegistryTools ==
    [ i \in DOMAIN DeclaredTools |->
        [ name |-> DeclaredTools[i], description |-> "tool " \o DeclaredTools[i],
          parameters_json_schema |-> [type |-> "object", properties |-> EmptyDict] ] ]

\* A faulty variant of HandleToolsList: the last tool of the registry is left out.
HandleToolsListDroppingLast(request_id, server) ==
    ResultResponse(request_id,
        [ tools |-> IF server.hasToolManager
                    THEN [ i \in 1..(Len(RegistryTools) - 1) |->
                             [ name        |-> RegistryTools[i].name,
                               description |-> RegistryTools[i].description,
                               inputSchema |-> RegistryTools[i].parameters_json_schema ] ]
                    ELSE <<>> ])

\* _handle_tools_list: server.hasToolManager is hasattr(mcp_server, '_tool_manager')
HandleToolsList(request_id, server) ==
    ResultResponse(request_id,
        [ tools |-> IF server.hasToolManager
                    THEN [ i \in DOMAIN RegistryTools |->
                             [ name        |-> RegistryTools[i].name,
                               description |-> RegistryTools[i].description,
                               inputSchema |-> RegistryTools[i].parameters_json_schema ] ]
                    ELSE <<>> ])

\* Lines 168-174 and 191-197: one item of a content list as a dict
ContentItem(item) ==
    IF HasAttr(item, "model_dump") THEN ModelDump(item)
    ELSE IF HasAttr(item, "type") /\ HasAttr(item, "text")
         THEN JObj([type |-> item.attrs.type, text |-> item.attrs.text])
    ELSE item

\* A faulty variant of ContentItems: the items come out in reverse order.
ContentItemsReversed(items) == [i \in DOMAIN items |-> ContentItem(items[Len(items) + 1 - i])]

\* Lines 167-174 and 190-197: the loop over the content list
ContentItems(items) == [i \in DOMAIN items |-> ContentItem(items[i])]

\* A faulty variant of FormatToolResult: a None result is serialized like any value.
FormatToolResultNullAsSuccess(request_id, tool_name, result) ==
    IF result.t = "tuple" /\ Len(result.items) = 2
    THEN Return(ResultResponse(request_id, [content |-> ContentItems(result.items[1].items)]))
    ELSE LET text == JsonDumps(IF HasAttr(result, "model_dump") THEN ModelDump(result)
                               ELSE result) IN
         IF text.raised THEN text
         ELSE Return(ResultResponse(request_id,
                  [content |-> << JObj([type |-> JStr("text"), text |-> JStr(text.value)]) >>]))

\* Lines 152-214: the response for what call_tool returned; json.dumps may raise.
FormatToolResult(request_id, tool_name, result) ==
    IF result = None
    THEN Return(ErrorResponse(request_id, -32603,
             "Tool " \o Format(tool_name)
             \o " returned None - likely missing required parameters or configuration error"))
    ELSE IF result.t = "tuple" /\ Len(result.items) = 2
    THEN Return(ResultResponse(request_id, [content |-> ContentItems(result.items[1].items)]))
    ELSE LET dumped == IF HasAttr(result, "model_dump") THEN ModelDump(result) ELSE result IN
         IF /\ dumped.t = "list"
            /\ Len(dumped.items) > 0
            /\ HasAttr(dumped.items[1], "type")
            /\ HasAttr(dumped.items[1], "text")
         THEN Return(ResultResponse(request_id, [content |-> ContentItems(dumped.items)]))
         ELSE LET text == JsonDumps(dumped) IN
              IF text.raised THEN text
              ELSE Return(ResultResponse(request_id,
                       [content |-> << JObj([type |-> JStr("text"), text |-> JStr(text.value)]) >>]))

\* A faulty variant of ToolCallExcept: the error is sent along with an empty result.
ToolCallExceptWithResult(request_id, exc) ==
    [ jsonrpc |-> "2.0", id |-> request_id, result |-> [content |-> <<>>],
      error |-> [code |-> -32603, message |-> "Tool execution failed: " \o exc.msg] ]

\* Lines 216-226: the except clause of _handle_tools_call
ToolCallExcept(request_id, exc) ==
    ErrorResponse(request_id, -32603, "Tool execution failed: " \o exc.msg)

\* _handle_tools_call: outcome is what call_tool does when it is called.
\* The result names the response (or the exception that escapes) and whether
\* call_tool was called.
HandleToolsCall(request_id, params, server, outcome) ==
    IF params.t # "dict"
    THEN [called |-> FALSE, ret |-> Raise("AttributeError", "object has no attribute 'get'")]
    ELSE LET tool_name == Get(params.d, "name", None) IN
         IF ~Truthy(tool_name)
         THEN [called |-> FALSE,
               ret |-> Return(ErrorResponse(request_id, -32602, "Missing tool name"))]
         ELSE IF ~server.hasToolManager
         THEN [called |-> FALSE,
               ret |-> Return(ErrorResponse(request_id, -32603, "Tool manager not found"))]
         ELSE IF outcome.raised
         THEN [called |-> TRUE, ret |-> Return(ToolCallExcept(request_id, outcome))]
         ELSE LET formatted == FormatToolResult(request_id, tool_name, outcome.value) IN
              [called |-> TRUE,
               ret |-> IF formatted.raised
                       THEN Return(ToolCallExcept(request_id, formatted))
                       ELSE formatted]

\* A faulty variant of MethodNotFound: the code of an invalid request is used.
MethodNotFoundAsInvalidRequest(request_id, method) ==
    ErrorResponse(request_id, -32600, "Method not found: " \o Format(method))

\* The response to a method that is none of the four
MethodNotFound(request_id, method) ==
    ErrorResponse(request_id, -32601, "Method not found: " \o Format(method))

\* A faulty variant of NotificationResponse: the notification is answered with a null id.
NotificationResponseWithId == [jsonrpc |-> "2.0", id |-> None]

\* Lines 50-51: the response to notifications/initialized
NotificationResponse == [jsonrpc |-> "2.0"]

\* handle_jsonrpc_request
HandleJsonrpcRequest(request, server, outcome) ==
    LET method     == RGet(request, "method", None)
        params     == RGet(request, "params", JObj(EmptyDict))
        request_id == RGet(request, "id", None) IN
    IF method = JStr("initialize")
    THEN [called |-> FALSE, ret |-> Return(HandleInitialize(request_id))]
    ELSE IF method = JStr("notifications/initialized")
    THEN [called |-> FALSE, ret |-> Return(NotificationResponse)]
    ELSE IF method = JStr("tools/list")
    THEN [called |-> FALSE, ret |-> Return(HandleToolsList(request_id, server))]
    ELSE IF method = JStr("tools/call")
    THEN HandleToolsCall(request_id, params, server, outcome)
    ELSE [called |-> FALSE, ret |-> Return(MethodNotFound(request_id, method))]

----------------------------------------------------------------------------
(* src/cdk.out/asset.96bd.../lambda_function.py: handle_mcp_request *)

\* What a tool handler (handle_execute_query, ...) returns: 200 with a JSON body,
\* or 500 when its try block raised.
LegacyToolResults ==
    { [statusCode |-> 200, body |-> QueryResult],
      [statusCode |-> 500, body |-> JObj([error |-> JStr("connection refused")])] }

\* Lines 187-226: tools/call
LegacyToolsCall(request_id, params, tool_result) ==
    IF params.t # "dict"
    THEN [called |-> FALSE, ret |-> Raise("AttributeError", "object has no attribute 'get'")]
    ELSE LET tool_name == Get(params.d, "name", None) IN
         IF ~IsDeclared(tool_name)
         THEN [called |-> FALSE,
               ret |-> Return(ErrorResponse(request_id, -32601,
                                            "Unknown tool: " \o Format(tool_name)))]
         ELSE IF tool_result.statusCode = 200
         THEN [called |-> TRUE,
               ret |-> Return(ResultResponse(request_id,
                          [content |-> << JObj([type |-> JStr("text"),
                                                text |-> JStr(Dumps(tool_result.body))]) >>]))]
         ELSE [called |-> TRUE,
               ret |-> Return(ErrorResponse(request_id, -32603, "Tool execution failed"))]

\* Lines 228-233: any other method
LegacyUnknownMethod(request_id, method) ==
    ErrorResponse(request_id, -32601, "Unknown method: " \o Format(method))

\* handle_mcp_request
HandleMcpRequest(event, tool_result) ==
    LET method     == RGet(event, "method", None)
        params     == RGet(event, "params", JObj(EmptyDict))
        request_id == RGet(event, "id", None) IN
    IF method = JStr("initialize")
    THEN [called |-> FALSE,
          ret |-> Return(ResultResponse(request_id,
                     [ protocolVersion |-> "2024-11-05",
                       capabilities    |-> [tools |-> EmptyDict],
                       serverInfo      |-> [name |-> "prometheus-mcp-server",
                                            version |-> "1.0.0"] ]))]
    ELSE IF method = JStr("notifications/initialized")
    THEN [called |-> FALSE, ret |-> Return([jsonrpc |-> "2.0"])]
    ELSE IF method = JStr("tools/list")
    THEN [called |-> FALSE,
          ret |-> Return(ResultResponse(request_id,
                     [ tools |-> [ i \in DOMAIN DeclaredTools |->
                                     [ name        |-> DeclaredTools[i],
                                       description |-> "tool " \o DeclaredTools[i],
                                       inputSchema |-> [type |-> "object",
                                                        properties |-> EmptyDict] ] ] ]))]
    ELSE IF method = JStr("tools/call")
    THEN LegacyToolsCall(request_id, params, tool_result)
    ELSE [called |-> FALSE, ret |-> Return(LegacyUnknownMethod(request_id, method))]

----------------------------------------------------------------------------
(* The router as a state machine: one request at a time, no state between    *)
(* requests.                                                                 *)

Servers == { [hasToolManager |-> TRUE], [hasToolManager |-> FALSE] }

\* The tool the request names, as call_tool would receive it
NamedTool(request) ==
    LET params == RGet(request, "params", JObj(EmptyDict)) IN
    IF params.t = "dict" THEN Get(params.d, "name", None) ELSE None

Handled(impl, request, h) ==
    [ pc |-> "done", impl |-> impl, request |-> request, called |-> h.called, ret |-> h.ret ]

\* StdioAdapter.handle_jsonrpc_request(request)
AdapterHandle(request, server, outcome) ==
    /\ rpc.pc = "idle"
    /\ LET h == HandleJsonrpcRequest(request, server, outcome) IN
       rpc' = Handled("adapter", request, h)
              @@ [server |-> server]
              @@ (IF h.called THEN [outcome |-> outcome] ELSE EmptyDict)
    /\ UNCHANGED <<deployed, env, idp, cache, auth>>

\* handle_mcp_request(event, context)
LegacyHandle(request, tool_result) ==
    /\ rpc.pc = "idle"
    /\ LET h == HandleMcpRequest(request, tool_result) IN
       rpc' = Handled("legacy", request, h)
              @@ (IF h.called THEN [tool_result |-> tool_result] ELSE EmptyDict)
    /\ UNCHANGED <<deployed, env, idp, cache, auth>>

\* The response has been sent; the router takes the next request.
RpcEnd ==
    /\ rpc.pc = "done"
    /\ rpc' = Idle
    /\ UNCHANGED <<deployed, env, idp, cache, auth>>

InitRouter ==
    /\ deployed = "verifying"
    /\ env = GoodEnv
    /\ idp = {Jwk("k1", "n1")}
    /\ cache = <<>>
    /\ auth = [i \in Invocations |-> Idle]
    /\ rpc = Idle

NextRouter ==
    \/ \E r \in Requests, s \in Servers :
           \E o \in ToolOutcomes(NamedTool(r)) : AdapterHandle(r, s, o)
    \/ \E r \in Requests, t \in LegacyToolResults : LegacyHandle(r, t)
    \/ RpcEnd

SpecRouter == InitRouter /\ [][NextRouter]_vars

----------------------------------------------------------------------------
(* Vocabulary of the router claims *)

Responded == rpc.pc = "done" /\ ~rpc.ret.raised

Response == rpc.ret.value

\* The method of the request being handled, None when the key is missing
MethodOf(request) == IF "method" \in DOMAIN request THEN request["method"] ELSE None

\* The name a method is written with in a message
MethodName(request) ==
    IF MethodOf(request).t = "str" THEN MethodOf(request).s ELSE "None"

KnownMethods == {"initialize", "tools/list", "tools/call", "notifications/initialized"}

IsUnknownMethod(request) ==
    MethodOf(request).t # "str" \/ MethodOf(request).s \notin KnownMethods

\* C2: for every request whose method is not notifications/initialized, the
\* response id equals the request id, in type and value, for integer, string
\* and null ids, on result and on error responses, whatever was handled before.
C2_ResponseIdEchoesRequestId ==
    (/\ Responded
     /\ MethodOf(rpc.request) # JStr("notifications/initialized")
     /\ "id" \in DOMAIN rpc.request)
    => /\ "id" \in DOMAIN Response
       /\ Response["id"] = rpc.request["id"]

\* A tools/call that ends in an error carries the string id "1" of its request,
\* not the integer 1.
C2_Witness ==
    /\ Responded
    /\ rpc.impl = "adapter"
    /\ MethodOf(rpc.request) = JStr("tools/call")
    /\ "id" \in DOMAIN rpc.request
    /\ rpc.request["id"] = JStr("1")
    /\ "error" \in DOMAIN Response
    /\ Response["id"] = JStr("1")
    /\ Response["id"] # JInt("1")

\* The error response to an unknown method, up to the wording of its message
IsMethodNotFoundResponse(message) ==
    /\ Responded
    /\ DOMAIN Response = {"jsonrpc", "id", "error"}
    /\ Response["jsonrpc"] = "2.0"
    /\ Response["id"] = Get(rpc.request, "id", None)
    /\ DOMAIN Response["error"] = {"code", "message"}
    /\ Response["error"].code = -32601
    /\ Response["error"].message = message

----------------------------------------------------------------------------
(* Claims about tools/call, tools/list, initialize and the notification *)

IsRequestFor(method) == rpc.pc = "done" /\ MethodOf(rpc.request) = JStr(method)

\* The params of the request as the router reads them: {} when the key is missing
ParamsOf(request) == Get(request, "params", JObj(EmptyDict))

\* params is an object whose name is absent, null or empty
NameMissing(request) ==
    /\ ParamsOf(request).t = "dict"
    /\ LET name == Get(ParamsOf(request).d, "name", None) IN
       name = None \/ name = JStr("")

\* The response is an error of this code that carries the id of the request and
\* no result.
IsErrorResponse(code) ==
    /\ Responded
    /\ DOMAIN Response = {"jsonrpc", "id", "error"}
    /\ Response["jsonrpc"] = "2.0"
    /\ Response["id"] = Get(rpc.request, "id", None)
    /\ Response["error"].code = code

\* C11: a tools/call whose params.name is absent, null or empty is answered with
\* an error of code -32602 that carries the request id, and no tool is invoked.
C11_MissingToolName ==
    (IsRequestFor("tools/call") /\ NameMissing(rpc.request))
    => (IsErrorResponse(-32602) /\ ~rpc.called)

\* The tool ran and returned None
ToolReturnedNone ==
    /\ rpc.pc = "done"
    /\ rpc.called
    /\ "outcome" \in DOMAIN rpc
    /\ ~rpc.outcome.raised
    /\ rpc.outcome.value.t = "null"

\* C12: a tool execution that completes with a null result is answered with an
\* error of code -32603 and never with a result.
C12_NullResultIsError ==
    ToolReturnedNone => (IsErrorResponse(-32603) /\ "result" \notin DOMAIN Response)

\* ExecuteQuery returns None: the response is the error that names the tool.
C12_Witness ==
    /\ ToolReturnedNone
    /\ rpc.impl = "adapter"
    /\ NamedTool(rpc.request) = JStr("ExecuteQuery")
    /\ IsErrorResponse(-32603)
    /\ Response["error"].message =
         "Tool ExecuteQuery returned None - likely missing required parameters or configuration error"

\* The tool was invoked and failed: call_tool raised (adapter), or the tool
\* handler answered with status 500 (handle_mcp_request).
ToolFailed ==
    /\ rpc.pc = "done"
    /\ rpc.called
    /\ IF rpc.impl = "adapter" THEN rpc.outcome.raised ELSE rpc.tool_result.statusCode # 200

\* The text of the underlying cause of the failure
CauseText ==
    IF rpc.impl = "adapter" THEN rpc.outcome.msg ELSE rpc.tool_result.body.d["error"].s

\* What may precede the cause text in the message
CausePrefixes == { "", "Tool execution failed: " }

\* C13: whenever the tool raises or fails during a tools/call, the response is an
\* error with the request id and code -32603 whose message holds the text of the
\* underlying cause; no exception escapes the router once the tool was invoked.
C13_ToolFailureIsInternalError ==
    /\ (rpc.pc = "done" /\ rpc.called) => ~rpc.ret.raised
    /\ ToolFailed =>
         /\ IsErrorResponse(-32603)
         /\ \E p \in CausePrefixes : Response["error"].message = p \o CauseText

\* C14: every response to a request that is not the notification has jsonrpc
\* '2.0' and exactly one of result and error.
C14_ExactlyOneOfResultAndError ==
    (Responded /\ MethodOf(rpc.request) # JStr("notifications/initialized"))
    => /\ Response["jsonrpc"] = "2.0"
       /\ ("result" \in DOMAIN Response) # ("error" \in DOMAIN Response)

\* A tool that raises is answered with an error and no result; so is a method
\* that is unknown.
C14_Witness ==
    /\ Responded
    /\ rpc.impl = "adapter"
    /\ IsRequestFor("tools/call")
    /\ rpc.called
    /\ rpc.outcome.raised
    /\ "error" \in DOMAIN Response
    /\ "result" \notin DOMAIN Response

\* C15: the response to notifications/initialized is the bare object
\* {jsonrpc: '2.0'}, without id, result or error, whatever id and params the
\* request carried.
C15_NotificationResponseIsBare ==
    IsRequestFor("notifications/initialized")
    => (Responded /\ Response = [jsonrpc |-> "2.0"] /\ ~rpc.called)

\* A notification that carries an id and params is answered with the bare object.
C15_Witness ==
    /\ IsRequestFor("notifications/initialized")
    /\ rpc.impl = "adapter"
    /\ "id" \in DOMAIN rpc.request
    /\ rpc.request["id"] = JInt("1")
    /\ "params" \in DOMAIN rpc.request
    /\ Responded
    /\ DOMAIN Response = {"jsonrpc"}

\* The tools of a tools/list response are the 5 declared tools, each with a
\* non-empty name, a description and an inputSchema that is an object.
ListsDeclaredTools ==
    /\ Responded
    /\ DOMAIN Response = {"jsonrpc", "id", "result"}
    /\ Response["id"] = Get(rpc.request, "id", None)
    /\ LET tools == Response["result"].tools IN
       /\ Len(tools) = 5
       /\ { tools[i].name : i \in DOMAIN tools } =
              { "GetAvailableWorkspaces", "ExecuteQuery", "ExecuteRangeQuery", "ListMetrics",
                "GetServerInfo" }
       /\ \A i \in DOMAIN tools :
              /\ DOMAIN tools[i] = {"name", "description", "inputSchema"}
              /\ tools[i].name # ""
              /\ "type" \in DOMAIN tools[i].inputSchema
              /\ tools[i].inputSchema.type = "object"

C17_InitializeSucceeds ==
    IsRequestFor("initialize") =>
        /\ Responded
        /\ ~rpc.called
        /\ DOMAIN Response = {"jsonrpc", "id", "result"}
        /\ Response["id"] = Get(rpc.request, "id", None)
        /\ Response["result"].protocolVersion = "2024-11-05"
        /\ "tools" \in DOMAIN Response["result"].capabilities
        /\ {"name", "version"} \subseteq DOMAIN Response["result"].serverInfo

\* initialize with a null id and params that are an array, on a server without a
\* tool manager, succeeds.
C17_Witness ==
    /\ IsRequestFor("initialize")
    /\ rpc.impl = "adapter"
    /\ ~rpc.server.hasToolManager
    /\ "id" \in DOMAIN rpc.request
    /\ rpc.request["id"] = None
    /\ "params" \in DOMAIN rpc.request
    /\ rpc.request["params"].t = "list"
    /\ Responded
    /\ Response["id"] = None
    /\ Response["result"].serverInfo.name = "awslabs-prometheus-mcp-server"


----------------------------------------------------------------------------
(* The HTTP transport: the Lambda handlers behind the API gateway              *)
(* (lambda_function_v2.py, the lambda_function.py asset, api_gateway_handler.py) *)

\* A text is given by what json.loads makes of it: the JSON text of a value, a
\* text that is no JSON, or the empty text.
JsonText(v) == [kind |-> "json", value |-> v]

MalformedText == [kind |-> "malformed"]

EmptyText == [kind |-> "empty"]

\* Bytes: the UTF-8 encoding of a text, or bytes that are no UTF-8
Utf8(text) == [kind |-> "utf8", text |-> text]

BinaryBytes == [kind |-> "binary"]

\* The base64 text of bytes, and a text that is no base64 (incorrect padding)
Base64(bytes) == [kind |-> "base64", of |-> bytes]

BadBase64 == [kind |-> "badbase64"]

\* json.dumps(v)
JsonDumpsText(v) == JsonText(v)

\* json.loads(text): the text of a base64 encoding is no JSON text either
JsonLoads(text) ==
    IF text.kind = "json" THEN Return(text.value)
    ELSE Raise("JSONDecodeError", "Expecting value: line 1 column 1 (char 0)")

\* base64.b64decode(body)
B64Decode(body) ==
    IF body = None
    THEN Raise("TypeError", "argument should be a bytes-like object or ASCII string, not 'NoneType'")
    ELSE IF body.kind = "base64" THEN Return(body.of)
    ELSE IF body.kind = "empty" THEN Return(Utf8(EmptyText))
    ELSE Raise("binascii.Error", "Incorrect padding")

\* bytes.decode('utf-8')
DecodeUtf8(bytes) ==
    IF bytes.kind = "utf8" THEN Return(bytes.text)
    ELSE Raise("UnicodeDecodeError", "'utf-8' codec can't decode byte 0xff in position 0")

\* needle in path, for texts given as sequences of pieces
Contains(path, needle) ==
    \E i \in 1..(Len(path) - Len(needle) + 1) : SubSeq(path, i, i + Len(needle) - 1) = needle

HealthPath == <<"/", "health">>

McpPath == <<"/", "mcp">>

\* datetime.utcnow().isoformat()
IsoFormat(now) == "2026-01-01T00:00:0" \o Str(now)

\* Lines 57-60: the body of the event, decoded when it is flagged as base64
ReadBody(event) ==
    LET body == Get(event, "body", JsonText(JObj(EmptyDict))) IN
    IF Get(event, "isBase64Encoded", FALSE)
    THEN LET bytes == B64Decode(body) IN
         IF bytes.raised THEN bytes ELSE DecodeUtf8(bytes.value)
    ELSE Return(body)

\* Line 63: json.loads(body) if body else {}
ParseBody(body) ==
    IF body = None THEN Return(JObj(EmptyDict))
    ELSE IF body.kind = "empty" THEN Return(JObj(EmptyDict))
    ELSE JsonLoads(body)

\* json.dumps(mcp_response): a content item that is no JSON type raises TypeError
DumpResponse(response) ==
    IF /\ "result" \in DOMAIN response
       /\ "content" \in DOMAIN response["result"]
       /\ \E i \in DOMAIN response["result"].content :
              ~Serializable(response["result"].content[i])
    THEN Raise("TypeError", "Object is not JSON serializable")
    ELSE Return(JsonDumpsText(response))

JsonHeaders == [ContentType |-> "application/json"]

CorsHeaders == [ContentType |-> "application/json", AccessControlAllowOrigin |-> "*"]

\* Lines 65-69: the answer to a body that is no JSON
InvalidJsonResponse ==
    [ statusCode |-> 400, headers |-> JsonHeaders,
      body |-> JsonDumpsText([error |-> "Invalid JSON in request body"]) ]

\* A faulty variant of NotFoundResponse: an unmatched route is answered as forbidden.
NotFoundAsForbidden ==
    [ statusCode |-> 403, headers |-> JsonHeaders, body |-> JsonDumpsText([error |-> "Forbidden"]) ]

\* Lines 86-90
NotFoundResponse ==
    [ statusCode |-> 404, headers |-> JsonHeaders, body |-> JsonDumpsText([error |-> "Not found"]) ]

\* Lines 96-104: the outer except clause
InternalErrorResponse(exc) ==
    [ statusCode |-> 500, headers |-> JsonHeaders, body |-> JsonDumpsText([error |-> exc.msg]) ]

\* Lines 76-83
OkResponse(body) == [ statusCode |-> 200, headers |-> CorsHeaders, body |-> body ]

\* Lines 40-52: the health answer of the SDK handler
HealthResponseV2(now) ==
    OkResponse(JsonDumpsText([ status |-> "healthy", service |-> "prometheus-mcp-lambda",
                               version |-> "2.0-sdk", timestamp |-> IsoFormat(now) ]))

\* The health answer of the asset and of api_gateway_handler
HealthResponse(now) ==
    OkResponse(JsonDumpsText([ status |-> "healthy", service |-> "prometheus-mcp-lambda",
                               timestamp |-> IsoFormat(now) ]))

\* A faulty variant of IsHealthRoute: the path has to be '/health' itself.
IsHealthRouteExactPath(event) ==
    /\ Get(event, "httpMethod", Absent) = "GET"
    /\ Get(event, "path", <<>>) = HealthPath

\* Line 39: event.get('httpMethod') == 'GET' and '/health' in event.get('path', '')
IsHealthRoute(event) ==
    /\ Get(event, "httpMethod", Absent) = "GET"
    /\ Contains(Get(event, "path", <<>>), HealthPath)

\* Line 55: event.get('httpMethod') == 'POST' and '/mcp' in event.get('path', '')
IsMcpRoute(event) ==
    /\ Get(event, "httpMethod", Absent) = "POST"
    /\ Contains(Get(event, "path", <<>>), McpPath)

\* The handler answered without the router
NotRouted(ret) == [routed |-> FALSE, called |-> FALSE, ret |-> ret]

\* adapter.handle_jsonrpc_request(mcp_request): request.get on a value that is no
\* dict raises AttributeError
RouteToAdapter(mcp_request, server, outcome) ==
    IF mcp_request.t # "dict"
    THEN [routed |-> TRUE, called |-> FALSE,
          ret |-> Raise("AttributeError", "object has no attribute 'get'")]
    ELSE [routed |-> TRUE] @@ HandleJsonrpcRequest(mcp_request.d, server, outcome)

\* A faulty variant of CatchAll: the clause catches ValueError only (the errors of
\* json.loads and bytes.decode); every other exception escapes the handler.
CatchValueErrorOnly(h) ==
    IF h.ret.raised /\ h.ret.cls \in {"JSONDecodeError", "UnicodeDecodeError"}
    THEN [h EXCEPT !.ret = Return(InternalErrorResponse(h.ret))] @@ [caught |-> h.ret]
    ELSE h

\* The except clause around a handler's body: every exception becomes a 500
\* (caught keeps the exception the clause has handled).
CatchAll(h) ==
    IF h.ret.raised
    THEN [h EXCEPT !.ret = Return(InternalErrorResponse(h.ret))] @@ [caught |-> h.ret]
    ELSE h

\* Lines 57-63: the request decoded from the body of the event; the exception of
\* json.loads is a JSONDecodeError
DecodeRequest(event) ==
    LET body == ReadBody(event) IN
    IF body.raised THEN body ELSE ParseBody(body.value)

\* Lines 57-83 of a handler: the POST /mcp route, where h is what the router
\* makes of the decoded request
McpRoute(event, h) ==
    LET mcp_request == DecodeRequest(event) IN
    IF mcp_request.raised
    THEN IF mcp_request.cls = "JSONDecodeError" THEN NotRouted(Return(InvalidJsonResponse))
         ELSE NotRouted(mcp_request)
    ELSE IF h.ret.raised THEN h
    ELSE LET text == DumpResponse(h.ret.value) IN
         [h EXCEPT !.ret = IF text.raised THEN text ELSE Return(OkResponse(text.value))]

\* lambda_function_v2.handler(event, context)
HandlerV2(event, server, outcome, now) ==
    CatchAll(
        IF "httpMethod" \in DOMAIN event
        THEN IF IsHealthRoute(event) THEN NotRouted(Return(HealthResponseV2(now)))
             ELSE IF IsMcpRoute(event)
             THEN McpRoute(event, RouteToAdapter(DecodeRequest(event).value, server, outcome))
             ELSE NotRouted(Return(NotFoundResponse))
        ELSE RouteToAdapter(JObj(event), server, outcome))

\* handle_mcp_request(event, context) of the asset, for any decoded value
RouteToLegacy(mcp_request, tool_result) ==
    IF mcp_request.t # "dict"
    THEN [routed |-> TRUE, called |-> FALSE,
          ret |-> Raise("AttributeError", "object has no attribute 'get'")]
    ELSE [routed |-> TRUE] @@ HandleMcpRequest(mcp_request.d, tool_result)

\* handler(event, context) of the lambda_function.py asset
LegacyHandler(event, tool_result, now) ==
    CatchAll(
        IF "httpMethod" \in DOMAIN event
        THEN IF IsHealthRoute(event) THEN NotRouted(Return(HealthResponse(now)))
             ELSE IF IsMcpRoute(event)
             THEN McpRoute(event, RouteToLegacy(DecodeRequest(event).value, tool_result))
             ELSE NotRouted(Return(NotFoundResponse))
        ELSE RouteToLegacy(JObj(event), tool_result))

\* mcp_handler(mcp_request, context) as api_gateway_handler calls it: the handler
\* of lambda_function on the decoded body.  A string is parsed again, membership
\* in a number or None raises; the handler's except clause answers both with 500.
McpHandler(mcp_request, tool_result) ==
    CatchAll(
        IF mcp_request.t = "str"
        THEN [routed |-> FALSE, called |-> FALSE, ret |-> JsonLoads(MalformedText)]
        ELSE IF mcp_request.t \in {"int", "null"}
        THEN [routed |-> FALSE, called |-> FALSE,
              ret |-> Raise("TypeError", "argument of type is not iterable")]
        ELSE RouteToLegacy(mcp_request, tool_result))

\* api_gateway_handler.handler(event, context): a response of mcp_handler that
\* holds statusCode is passed on as it is (lines 48-49).
GatewayHandler(event, tool_result, now) ==
    IF IsHealthRoute(event) THEN NotRouted(Return(HealthResponse(now)))
    ELSE IF IsMcpRoute(event)
    THEN LET mcp_request == DecodeRequest(event) IN
         IF mcp_request.raised
         THEN IF mcp_request.cls = "JSONDecodeError"
              THEN NotRouted(Return(InvalidJsonResponse))
              ELSE CatchAll(NotRouted(mcp_request))
         ELSE LET h == McpHandler(mcp_request.value, tool_result) IN
              IF "statusCode" \in DOMAIN h.ret.value THEN h
              ELSE [h EXCEPT !.ret = Return(OkResponse(JsonDumpsText(h.ret.value)))]
    ELSE NotRouted(Return(NotFoundResponse))


\* An event that is a string holding this text
EventString(text) == [t |-> "str", text |-> text]

\* Lines 31-37 of a handler, for an event of any type: a string is parsed; the
\* test 'httpMethod' in event raises TypeError on None or a number, and is false
\* on a list or a string, which then goes to the router as a direct call.
HandlerV2Entry(ev, server, outcome, now) ==
    LET loaded == IF ev.t = "str" /\ "text" \in DOMAIN ev THEN JsonLoads(ev.text)
                  ELSE Return(ev) IN
    IF loaded.raised THEN CatchAll(NotRouted(loaded))
    ELSE IF loaded.value.t = "dict" THEN HandlerV2(loaded.value.d, server, outcome, now)
    ELSE IF loaded.value.t \in {"null", "int"}
    THEN CatchAll(NotRouted(Raise("TypeError", "argument of type is not iterable")))
    ELSE CatchAll(RouteToAdapter(loaded.value, server, outcome))

\* The same lines of the asset's handler
LegacyHandlerEntry(ev, tool_result, now) ==
    LET loaded == IF ev.t = "str" /\ "text" \in DOMAIN ev THEN JsonLoads(ev.text)
                  ELSE Return(ev) IN
    IF loaded.raised THEN CatchAll(NotRouted(loaded))
    ELSE IF loaded.value.t = "dict" THEN LegacyHandler(loaded.value.d, tool_result, now)
    ELSE IF loaded.value.t \in {"null", "int"}
    THEN CatchAll(NotRouted(Raise("TypeError", "argument of type is not iterable")))
    ELSE CatchAll(RouteToLegacy(loaded.value, tool_result))

\* api_gateway_handler.handler for an event of any type: event.get raises
\* AttributeError on an event that is no dict (line 13).
GatewayHandlerEntry(ev, tool_result, now) ==
    IF ev.t = "dict" THEN GatewayHandler(ev.d, tool_result, now)
    ELSE CatchAll(NotRouted(Raise("AttributeError", "object has no attribute 'get'")))

----------------------------------------------------------------------------
(* Inputs of the transport *)

HttpMethods == { "GET", "POST", "DELETE" }

Paths ==
    { <<"/", "health">>, <<"/", "prod", "/", "health", "/", "live">>, <<"/", "health", "z">>,
      <<"/", "mcp", "/", "health">>, <<"/", "mcp">>, <<"/", "prod", "/", "mcp">>,
      <<"/", "health", "/", "mcp">>, <<"/">>, <<"health">>, <<"prod", "mcp">> }

\* The JSON-RPC requests sent over HTTP: every method without params, initialize
\* with params, and tools/call with every shape of params
HttpRequests ==
    { [jsonrpc |-> JStr("2.0"), id |-> JInt("1"), method |-> m] : m \in Methods }
    \cup { [jsonrpc |-> JStr("2.0"), id |-> JStr("req-a"), method |-> JStr("initialize"),
            params |-> JList(<<JStr("ExecuteQuery")>>)] }
    \cup { [jsonrpc |-> JStr("2.0"), id |-> JInt("1"), method |-> JStr("tools/call"),
            params |-> p] : p \in ParamsValues }

\* Values a body may hold that are JSON but no JSON-RPC request object
OtherJsonValues == { JList(<<>>), JStr("x"), JInt("1"), None }

PlainBodies ==
    { JsonText(JObj(r)) : r \in HttpRequests }
    \cup { JsonText(v) : v \in OtherJsonValues }
    \cup { MalformedText, EmptyText, None }

EncodedBodies ==
    { Base64(Utf8(JsonText(JObj(r)))) : r \in HttpRequests }
    \cup { Base64(Utf8(JsonText(v))) : v \in OtherJsonValues }
    \cup { Base64(Utf8(MalformedText)), Base64(BinaryBytes), BadBase64, EmptyText, None }

McpPaths == { p \in Paths : Contains(p, McpPath) }

\* API gateway events: any method on any path without a body, and POSTs to the
\* MCP paths with a body that is sent plain (flag absent or false) or base64
\* encoded (flag true); a base64 text may also arrive without its flag.
HttpEvents ==
    { Entry(TRUE, "httpMethod", c.httpMethod) @@ Entry(c.hasPath, "path", c.path) :
        c \in [ httpMethod : HttpMethods, hasPath : BOOLEAN, path : Paths ] }
    \cup
    { [httpMethod |-> "POST", path |-> c.path, body |-> c.body]
      @@ Entry(c.flag # "absent", "isBase64Encoded", c.flag = "true") :
        c \in [ path : McpPaths, body : PlainBodies, flag : {"absent", "false"} ]
              \cup [ path : McpPaths, body : EncodedBodies, flag : {"true"} ]
              \cup [ path : McpPaths,
                     body : {Base64(Utf8(JsonText(JObj(EmptyDict)))), BadBase64},
                     flag : {"absent"} ] }
    \cup
    { [httpMethod |-> "GET", path |-> p, body |-> MalformedText] : p \in Paths }

\* Direct invocations: the event is the JSON-RPC request itself
DirectEvents == HttpRequests

\* The decoded request of an event that reaches the router, None otherwise
RoutedRequest(event) ==
    IF "httpMethod" \notin DOMAIN event THEN JObj(event)
    ELSE LET parsed == DecodeRequest(event) IN
         IF parsed.raised THEN None ELSE parsed.value

\* Events that are no dict: None, a number, a list, a string that is no JSON, and
\* strings holding the JSON text of an event or of another value
RawEvents ==
    { None, JInt("1"), JList(<<>>), EventString(MalformedText), EventString(JsonText(None)),
      EventString(JsonText(JStr("x"))),
      EventString(JsonText(JObj([httpMethod |-> "GET", path |-> <<"/", "health">>]))),
      EventString(JsonText(JObj([jsonrpc |-> JStr("2.0"), id |-> JInt("1"),
                                 method |-> JStr("initialize")]))) }

\* The tool a routed event names
EventTool(ev) ==
    IF ev.t # "dict" THEN None
    ELSE LET r == RoutedRequest(ev.d) IN
         IF r.t = "dict" THEN NamedTool(r.d) ELSE None

----------------------------------------------------------------------------
(* The transport as a state machine: one invocation at a time *)

\* The invocation has returned: event is the event when it is a dict, raw otherwise
Served(impl, ev, h) ==
    [ pc |-> "done", impl |-> impl, routed |-> h.routed, called |-> h.called, ret |-> h.ret ]
    @@ (IF ev.t = "dict" THEN [event |-> ev.d] ELSE [raw |-> ev])
    @@ (IF "caught" \in DOMAIN h THEN [caught |-> h.caught] ELSE EmptyDict)

\* lambda_function_v2.handler
HandlerV2Invoke(ev, server, outcome, now) ==
    /\ rpc.pc = "idle"
    /\ rpc' = Served("v2", ev, HandlerV2Entry(ev, server, outcome, now))
    /\ UNCHANGED <<deployed, env, idp, cache, auth>>

\* handler of the lambda_function.py asset
LegacyHandlerInvoke(ev, tool_result, now) ==
    /\ rpc.pc = "idle"
    /\ rpc' = Served("legacy", ev, LegacyHandlerEntry(ev, tool_result, now))
    /\ UNCHANGED <<deployed, env, idp, cache, auth>>

\* api_gateway_handler.handler
GatewayHandlerInvoke(ev, tool_result, now) ==
    /\ rpc.pc = "idle"
    /\ rpc' = Served("gateway", ev, GatewayHandlerEntry(ev, tool_result, now))
    /\ UNCHANGED <<deployed, env, idp, cache, auth>>

\* Every event a handler may be invoked with
AllEvents == { JObj(e) : e \in HttpEvents \cup DirectEvents } \cup RawEvents

NextTransport ==
    \/ /\ rpc.pc = "idle"
       /\ \E e \in AllEvents, s \in Servers, now \in Times :
              \E o \in ToolOutcomes(EventTool(e)) : HandlerV2Invoke(e, s, o, now)
    \/ /\ rpc.pc = "idle"
       /\ \E e \in AllEvents, t \in LegacyToolResults, now \in Times :
              LegacyHandlerInvoke(e, t, now)
    \/ /\ rpc.pc = "idle"
       /\ \E e \in AllEvents, t \in LegacyToolResults, now \in Times :
              GatewayHandlerInvoke(e, t, now)
    \/ RpcEnd

SpecTransport == InitRouter /\ [][NextTransport]_vars


----------------------------------------------------------------------------
(* Claims about the transport *)

\* A handler has answered an API gateway event
Answered == rpc.pc = "done" /\ "event" \in DOMAIN rpc /\ "httpMethod" \in DOMAIN rpc.event

HttpReply == rpc.ret.value

\* A POST to a path containing /mcp
IsPostToMcp(event) ==
    /\ event["httpMethod"] = "POST"
    /\ "path" \in DOMAIN event
    /\ Contains(event["path"], <<"/", "mcp">>)

IsFlagged(event) == "isBase64Encoded" \in DOMAIN event /\ event["isBase64Encoded"]

\* The body of the event is the JSON text of a value (sent plain, or base64
\* encoded and flagged)
BodyIsJson(event) ==
    /\ "body" \in DOMAIN event
    /\ event["body"] # None
    /\ IF IsFlagged(event)
       THEN /\ event["body"].kind = "base64"
            /\ event["body"].of.kind = "utf8"
            /\ event["body"].of.text.kind = "json"
       ELSE event["body"].kind = "json"

\* The body of the event cannot be decoded as JSON: malformed JSON text, plain or
\* encoded, undecodable base64, or bytes that are no UTF-8
BodyIsUndecodable(event) ==
    /\ "body" \in DOMAIN event
    /\ event["body"] # None
    /\ IF IsFlagged(event)
       THEN \/ event["body"].kind = "badbase64"
            \/ /\ event["body"].kind = "base64"
               /\ \/ event["body"].of.kind = "binary"
                  \/ /\ event["body"].of.kind = "utf8"
                     /\ event["body"].of.text.kind = "malformed"
       ELSE event["body"].kind \in {"malformed", "base64", "badbase64"}

\* The reply is HTTP 200 with the JSON text of a JSON-RPC envelope
IsEnvelopeReply ==
    /\ HttpReply.statusCode = 200
    /\ HttpReply.body.kind = "json"
    /\ "jsonrpc" \in DOMAIN HttpReply.body.value
    /\ HttpReply.body.value["jsonrpc"] = "2.0"

\* C18: every POST to a path containing /mcp whose body parses as JSON is
\* answered with HTTP 200 and a JSON-RPC envelope; unknown methods, missing or
\* unknown tools, raising tools and params of the wrong shape appear as an error
\* inside the envelope, never as HTTP 500.
C18_McpAnswersEnvelope ==
    (Answered /\ IsPostToMcp(rpc.event) /\ BodyIsJson(rpc.event)) => IsEnvelopeReply

\* C19: a POST to a path containing /mcp whose body is not decodable as JSON
\* (malformed JSON, plain or flagged as base64, undecodable base64, bytes that
\* are no UTF-8) is answered with HTTP 400 {error: 'Invalid JSON in request
\* body'}, and the router is not invoked.
C19_UndecodableBodyIsBadRequest ==
    (Answered /\ IsPostToMcp(rpc.event) /\ BodyIsUndecodable(rpc.event))
    => /\ HttpReply.statusCode = 400
       /\ HttpReply.body = JsonText([error |-> "Invalid JSON in request body"])
       /\ ~rpc.routed

\* A GET whose path contains '/health'
IsGetOfHealth(event) ==
    /\ event["httpMethod"] = "GET"
    /\ "path" \in DOMAIN event
    /\ Contains(event["path"], <<"/", "health">>)

\* C20: every GET whose path contains '/health', with any leading or trailing
\* segments, is answered with HTTP 200 and a body holding status, service and
\* timestamp (and version in the SDK handler), without calling the router or a
\* tool, before every other route.
C20_HealthCheck ==
    (Answered /\ IsGetOfHealth(rpc.event))
    => /\ HttpReply.statusCode = 200
       /\ HttpReply.body.kind = "json"
       /\ {"status", "service", "timestamp"} \subseteq DOMAIN HttpReply.body.value
       /\ (rpc.impl = "v2") => ("version" \in DOMAIN HttpReply.body.value)
       /\ ~rpc.routed
       /\ ~rpc.called

\* The SDK handler answers GET /mcp/health as a health check.
C20_Witness ==
    /\ Answered
    /\ rpc.impl = "v2"
    /\ IsGetOfHealth(rpc.event)
    /\ rpc.event["path"] = <<"/", "mcp", "/", "health">>
    /\ HttpReply.statusCode = 200
    /\ HttpReply.body.value.status = "healthy"
    /\ HttpReply.body.value.version = "2.0-sdk"
    /\ ~rpc.routed


\* C21: every API gateway event that is neither a GET with '/health' in its path
\* nor a POST with '/mcp' in its path is answered with HTTP 404 {error: 'Not
\* found'}, and neither the router nor a tool is called.
C21_UnmatchedRouteIsNotFound ==
    (Answered /\ ~IsGetOfHealth(rpc.event) /\ ~IsPostToMcp(rpc.event))
    => /\ HttpReply.statusCode = 404
       /\ HttpReply.body = JsonText([error |-> "Not found"])
       /\ ~rpc.routed
       /\ ~rpc.called

\* GET /mcp is answered with 404 by the SDK handler.
C21_Witness ==
    /\ Answered
    /\ rpc.impl = "v2"
    /\ rpc.event["httpMethod"] = "GET"
    /\ "path" \in DOMAIN rpc.event
    /\ rpc.event["path"] = <<"/", "mcp">>
    /\ HttpReply.statusCode = 404
    /\ ~rpc.routed

\* An invocation of an entry-point handler has ended
Invoked == rpc.pc = "done" /\ rpc.impl \in {"v2", "legacy", "gateway"}

\* C22: the entry-point handler never lets an exception escape: it returns a
\* response for every event (dict, JSON string, ill-formed value), and a failure
\* it did not handle otherwise is answered with HTTP 500 {error: <message>}.
C22_NoExceptionEscapes ==
    Invoked =>
        /\ ~rpc.ret.raised
        /\ "caught" \in DOMAIN rpc =>
               /\ HttpReply.statusCode = 500
               /\ HttpReply.body = JsonText([error |-> rpc.caught.msg])

\* The SDK handler is invoked with None: the TypeError of the membership test is
\* answered with 500.
C22_Witness ==
    /\ Invoked
    /\ rpc.impl = "v2"
    /\ "raw" \in DOMAIN rpc
    /\ rpc.raw = None
    /\ "caught" \in DOMAIN rpc
    /\ rpc.caught.cls = "TypeError"
    /\ ~rpc.ret.raised
    /\ HttpReply.statusCode = 500


----------------------------------------------------------------------------
(* Claims about the normalization of tool results *)

\* The adapter called the tool and the tool returned a value
ToolReturned ==
    /\ rpc.pc = "done"
    /\ "impl" \in DOMAIN rpc
    /\ rpc.impl = "adapter"
    /\ rpc.called
    /\ "outcome" \in DOMAIN rpc
    /\ ~rpc.outcome.raised

RawResult == rpc.outcome.value

\* A (content-list, metadata) pair
IsPair(x) == x.t = "tuple" /\ Len(x.items) = 2

\* A value of the structured block shape: it has type and text fields
IsBlock(x) == x.t \in {"TextContent", "object"} /\ {"type", "text"} \subseteq DOMAIN x.attrs

\* A content block on the wire: a mapping with type and text
IsWireBlock(x) == x.t = "dict" /\ {"type", "text"} \subseteq DOMAIN x.d

HasResult == Responded /\ "result" \in DOMAIN Response

\* C23: when the tool returns a (content-list, metadata) pair, result.content is
\* the content list converted block by block: same length, same order, each
\* block-shaped item as the mapping of its type and text; the metadata adds
\* nothing to the response.
C23_PairContent ==
    (ToolReturned /\ IsPair(RawResult)) =>
        /\ HasResult
        /\ DOMAIN Response = {"jsonrpc", "id", "result"}
        /\ DOMAIN Response["result"] = {"content"}
        /\ LET list    == RawResult.items[1].items
               content == Response["result"].content IN
           /\ Len(content) = Len(list)
           /\ \A i \in DOMAIN list :
                  IF IsBlock(list[i])
                  THEN /\ IsWireBlock(content[i])
                       /\ content[i].d["type"] = list[i].attrs.type
                       /\ content[i].d["text"] = list[i].attrs.text
                  ELSE content[i] = list[i]

\* A pair whose list holds three items is answered with the three, in order.
C23_Witness ==
    /\ ToolReturned
    /\ IsPair(RawResult)
    /\ Len(RawResult.items[1].items) = 3
    /\ HasResult
    /\ Len(Response["result"].content) = 3
    /\ Response["result"].content[1].d["text"] = JStr("a")
    /\ Response["result"].content[2].d["text"] = JStr("b")

\* C24: when the tool returns a single value of the block shape, result.content
\* holds that block itself (its own type and text), not a text block holding a
\* JSON serialization of it.
C24_SingleBlockPassesThrough ==
    (ToolReturned /\ IsBlock(RawResult)) =>
        /\ HasResult
        /\ Len(Response["result"].content) = 1
        /\ IsWireBlock(Response["result"].content[1])
        /\ Response["result"].content[1].d["type"] = RawResult.attrs.type
        /\ Response["result"].content[1].d["text"] = RawResult.attrs.text

\* A raw result for the last step of the chain: not None, no pair, no block, no
\* list whose first element is a block
IsPlainValue(x) ==
    /\ x.t # "null"
    /\ ~IsPair(x)
    /\ ~IsBlock(x)
    /\ ~(x.t = "list" /\ Len(x.items) > 0 /\ IsBlock(x.items[1]))

\* C25: every successful tools/call response has a result.content that is a list
\* of content blocks; for a raw result that is not None, no pair, no block and no
\* list whose first element is a block, result.content is exactly one text block
\* holding the JSON text of the raw result.
C25_OneWireShape ==
    /\ (IsRequestFor("tools/call") /\ HasResult) =>
           \A i \in DOMAIN Response["result"].content :
               IsWireBlock(Response["result"].content[i])
    /\ (ToolReturned /\ IsPlainValue(RawResult) /\ Serializable(RawResult)) =>
           /\ HasResult
           /\ Response["result"].content =
                  << JObj([type |-> JStr("text"), text |-> JStr(Dumps(RawResult))]) >>

NamesUnknownTool(request) ==
    /\ ParamsOf(request).t = "dict"
    /\ LET name == Get(ParamsOf(request).d, "name", None) IN
       /\ name.t = "str"
       /\ name.s # ""
       /\ name.s \notin { DeclaredTools[i] : i \in DOMAIN DeclaredTools }

\* C27: a tools/call naming a tool that is absent from the registry is answered
\* with an error of code -32601 that carries the request id, never with a result
\* or another code, and no tool is invoked for it.
C27_UnknownToolIsNotFound ==
    (IsRequestFor("tools/call") /\ NamesUnknownTool(rpc.request))
    => (IsErrorResponse(-32601) /\ ~rpc.called)


----------------------------------------------------------------------------
(* Claims about the key-set cache and the configuration of the authorizer *)

\* The cache holds a key set for the pair
Holds(c, args) == \E j \in DOMAIN c : c[j].args = args

\* The issuer pair the handler looks up
PairOf(e) == << Get(e, "AWS_REGION", "us-west-2"), Get(e, "USER_POOL_ID", Absent) >>

\* In this step the process is replaced
Restarts ==
    /\ cache' = <<>>
    /\ \A i \in Invocations : auth[i].pc = "idle" /\ auth'[i].pc = "idle"

FetchFails(i) ==
    /\ auth[i].pc = "fetching"
    /\ auth'[i].pc = "done"
    /\ auth'[i].out.kind = "raise"
    /\ auth'[i].out.cls = "URLError"

\* In this step invocation i reaches the lookup of the key set
LookupStarts(i) ==
    /\ auth[i].pc = "idle"
    /\ \/ auth'[i].pc = "fetching"
       \/ auth'[i].pc = "done" /\ auth'[i].lookup # "none"

\* C29: a key-set fetch that fails leaves the cache unchanged, with no entry for
\* the pair; the request is rejected as Unauthorized after that one fetch; and a
\* request that finds no entry for its pair starts a fetch.
C29_FailedFetchIsNotCached ==
    [][ \A i \in Invocations :
          /\ FetchFails(i) =>
                 /\ cache' = cache
                 /\ ~Holds(cache', auth[i].args)
                 /\ auth'[i].out.error = "Unauthorized"
                 /\ auth'[i].fetches = 1
          /\ (LookupStarts(i) /\ ~Holds(cache, PairOf(env))) => auth'[i].pc = "fetching"
      ]_vars

\* A request has been rejected for a fetch that failed, and the cache is empty.
C29_Witness ==
    \E i \in Invocations :
        /\ Finished(i)
        /\ auth[i].lookup = "miss"
        /\ auth[i].fetches = 1
        /\ auth[i].out.kind = "raise"
        /\ auth[i].out.cls = "URLError"
        /\ auth[i].out.error = "Unauthorized"
        /\ cache = <<>>

\* The user pool id, the expected issuer and the required scopes are configured
Configured == {"USER_POOL_ID", "COGNITO_ISSUER", "REQUIRED_SCOPES"} \subseteq DOMAIN env

\* C30: when the user pool id, the expected issuer or the required scopes are not
\* configured, every token is rejected as Unauthorized; and a token is allowed
\* only for an issuer that the configuration names, never for its own.
C30_FailsClosedOnMisconfiguration ==
    \A i \in Invocations :
        /\ (Finished(i) /\ ~Configured) =>
               (Rejected(auth[i]) /\ auth[i].out.error = "Unauthorized")
        /\ (Finished(i) /\ Allowed(auth[i])) =>
               /\ "COGNITO_ISSUER" \in DOMAIN env
               /\ Get(TokenOf(auth[i]).claims, "iss", AbsentSeq) = env["COGNITO_ISSUER"]

============================================================================
